---- MODULE Spec2Model ----
(***************************************************************************)
(* Model of scraper.py: the page-number parser get_page_number, the        *)
(* dynamic-content loop handle_dynamic_content_loading, one browsing       *)
(* session scrape_with_playwright and the restart loop of main.            *)
(*                                                                         *)
(* A URL is a sequence of one-character strings, so that the regular       *)
(* expressions of get_page_number are matched character by character.      *)
(* The web site, the browser and the user's interrupt are the environment: *)
(* their outcomes are chosen nondeterministically inside the actions.      *)
(***************************************************************************)
EXTENDS Integers, Sequences, FiniteSets, TLC

VARIABLES
    style,                 \* environment: URL convention of the listing
    bare_first,            \* environment: page 1 is served at the bare base URL
    pc,                    \* position of the single thread of control
    next_url_to_scrape,    \* main: resume URL, or None
    master_visited_urls,   \* main: the visited set (the session's visited_urls is the same object)
    master_scraped_data,   \* main: URL -> captured HTML (the session's scraped_data is the same object)
    restart_count,         \* main
    start_url,             \* session parameter
    last_successful_url,   \* session local
    previous_page_number,  \* session local
    previous_url,          \* session local
    current_url,           \* session local
    page_url,              \* browser: page.url
    browser_open,          \* browser: a chromium instance is running
    more_left,             \* page: load-more clicks that still reveal content
    grow_left,             \* page: scrolls that still increase the height
    endless,               \* page: "button" (load-more stays visible after every click), "scroll" (every scroll grows the page), "no"
    expand_tick,           \* handle_dynamic_content_loading: iterations of its loop so far, modulo 2
    exit_edge,             \* how the last ended session ended
    report,                \* what main printed and saved after its loop
    sessions,              \* history: number of sessions launched
    backoffs,              \* history: number of asyncio.sleep(10) calls of main
    writes,                \* history: URL -> number of writes of scraped_data[URL]
    clicked_from,          \* history: URL of the last successful click of this session, or start_url
    scenario,              \* history: "plain" (no fault, no dynamic content), "one_jump" (plain but for one click that skipped pages), "one_anomaly" (that skip was detected), "other"
    probe_url,             \* input of the get_page_number probe
    probe_result,          \* result of the get_page_number probe
    probe_sel,             \* input of the selector-loop probe: what each selector's first match does
    probe_button           \* result of the selector-loop probe

vars == <<style, bare_first, pc, next_url_to_scrape, master_visited_urls,
          master_scraped_data, restart_count, start_url, last_successful_url,
          previous_page_number, previous_url, current_url, page_url,
          browser_open, more_left, grow_left, endless, expand_tick, exit_edge,
          report, sessions, backoffs, writes, clicked_from, scenario, probe_url, probe_result, probe_sel,
          probe_button>>

site == <<style, bare_first>>

orchestrator == <<next_url_to_scrape, restart_count, exit_edge>>

master == <<master_visited_urls, master_scraped_data, writes>>

session_frame == <<start_url, last_successful_url, previous_page_number, previous_url,
                   current_url, page_url, more_left, grow_left, endless, expand_tick,
                   clicked_from>>

probe == <<probe_url, probe_result, probe_sel, probe_button>>

crawl_vars == <<style, bare_first, pc, next_url_to_scrape, master_visited_urls,
                master_scraped_data, restart_count, start_url, last_successful_url,
                previous_page_number, previous_url, current_url, page_url,
                browser_open, more_left, grow_left, endless, expand_tick, exit_edge,
                report, sessions, backoffs, writes, clicked_from, scenario>>

\* ---------------------------------------------------------------- bounds
NumPages == 3          \* pages of the listing
MaxMore == 1           \* load-more clicks a page can need
MaxGrow == 1           \* height-increasing scrolls a page can need
MaxFragments == 3      \* fragments concatenated into a probe URL
NumSelectors == 2      \* selectors tried for the Next button (the source lists 12)

\* main sets max_restarts = 30; the loop is checked for a small restart bound
max_restarts == 3

\* Python's None; no URL equals it, since a URL holds one-character strings.
None == <<"None">>

\* ------------------------------------------------------------ characters
Digits == <<"0", "1", "2", "3", "4", "5", "6", "7", "8", "9">>

IsDigit(c) == \E d \in 1..10 : Digits[d] = c

DigitValue(c) == (CHOOSE d \in 1..10 : Digits[d] = c) - 1

\* url[i..] starts with the literal lit
StartsWithAt(url, i, lit) ==
    /\ i >= 1
    /\ i + Len(lit) - 1 <= Len(url)
    /\ \A k \in 1..Len(lit) : url[i + k - 1] = lit[k]

\* length of the longest run of digits starting at position i: the greedy \d+
RECURSIVE DigitRun(_, _)
DigitRun(url, i) ==
    IF i <= Len(url) /\ IsDigit(url[i]) THEN 1 + DigitRun(url, i + 1) ELSE 0

\* int() of the n digits starting at position i
RECURSIVE ToInt(_, _, _)
ToInt(url, i, n) ==
    IF n = 0 THEN 0
    ELSE 10 * ToInt(url, i, n - 1) + DigitValue(url[i + n - 1])

\* ------------------------------------------------------- get_page_number
\* r'[?&](?:page|p)=(\d+)' matches at i; the value is the position of group 1, else 0
QueryGroupAt(url, i) ==
    IF ~(i <= Len(url) /\ url[i] \in {"?", "&"}) THEN 0
    ELSE IF StartsWithAt(url, i + 1, <<"p", "a", "g", "e", "=">>) /\ DigitRun(url, i + 6) > 0
         THEN i + 6
    ELSE IF StartsWithAt(url, i + 1, <<"p", "=">>) /\ DigitRun(url, i + 3) > 0
         THEN i + 3
    ELSE 0

\* r'/page/(\d+)' matches at i; the value is the position of group 1, else 0
PathGroupAt(url, i) ==
    IF StartsWithAt(url, i, <<"/", "p", "a", "g", "e", "/">>) /\ DigitRun(url, i + 6) > 0
    THEN i + 6 ELSE 0

\* r'/(\d+)/?$' matches at i; the value is the position of group 1, else 0
TrailGroupAt(url, i) ==
    IF /\ i <= Len(url)
       /\ url[i] = "/"
       /\ DigitRun(url, i + 1) > 0
       /\ LET e == i + DigitRun(url, i + 1)
          IN  \/ e = Len(url)
              \/ e + 1 = Len(url) /\ url[e + 1] = "/"
    THEN i + 1 ELSE 0

\* re.search: the leftmost position where the pattern matches, else 0
SearchQuery(url) ==
    IF \E i \in 1..Len(url) : QueryGroupAt(url, i) > 0
    THEN CHOOSE i \in 1..Len(url) :
            /\ QueryGroupAt(url, i) > 0
            /\ \A j \in 1..(i - 1) : QueryGroupAt(url, j) = 0
    ELSE 0

SearchPath(url) ==
    IF \E i \in 1..Len(url) : PathGroupAt(url, i) > 0
    THEN CHOOSE i \in 1..Len(url) :
            /\ PathGroupAt(url, i) > 0
            /\ \A j \in 1..(i - 1) : PathGroupAt(url, j) = 0
    ELSE 0

SearchTrail(url) ==
    IF \E i \in 1..Len(url) : TrailGroupAt(url, i) > 0
    THEN CHOOSE i \in 1..Len(url) :
            /\ TrailGroupAt(url, i) > 0
            /\ \A j \in 1..(i - 1) : TrailGroupAt(url, j) = 0
    ELSE 0

\* int(match.group(1))
GroupInt(url, g) == ToInt(url, g, DigitRun(url, g))

\* the path segment tried before the query parameter
get_page_number_swapped(url) ==
    IF SearchPath(url) > 0 THEN GroupInt(url, PathGroupAt(url, SearchPath(url)))
    ELSE IF SearchQuery(url) > 0 THEN GroupInt(url, QueryGroupAt(url, SearchQuery(url)))
    ELSE IF SearchTrail(url) > 0 THEN GroupInt(url, TrailGroupAt(url, SearchTrail(url)))
    ELSE 1

get_page_number(url) ==
    IF SearchQuery(url) > 0 THEN GroupInt(url, QueryGroupAt(url, SearchQuery(url)))
    ELSE IF SearchPath(url) > 0 THEN GroupInt(url, PathGroupAt(url, SearchPath(url)))
    ELSE IF SearchTrail(url) > 0 THEN GroupInt(url, TrailGroupAt(url, SearchTrail(url)))
    ELSE 1


\* ---------------------------------------------------- the listing (environment)
Pages == 1..NumPages

Styles == {"query", "path", "trail", "opaque"}

Letters == <<"a", "b", "c", "d", "e", "f", "g", "i", "j", "k">>

Base == <<"h", "/", "l">>

\* decimal digits of n
RECURSIVE Dec(_)
Dec(n) == IF n < 10 THEN <<Digits[n + 1]>> ELSE Dec(n \div 10) \o <<Digits[(n % 10) + 1]>>

\* the URL at which the listing serves its page n
UrlFor(st, bare, n) ==
    IF bare /\ n = 1 THEN Base
    ELSE IF st = "query" THEN Base \o <<"?", "p", "a", "g", "e", "=">> \o Dec(n)
    ELSE IF st = "path" THEN Base \o <<"/", "p", "a", "g", "e", "/">> \o Dec(n) \o <<"/">>
    ELSE IF st = "trail" THEN Base \o <<"/">> \o Dec(n)
    ELSE Base \o <<"/", Letters[n]>>

PageUrl(n) == UrlFor(style, bare_first, n)

SiteUrls == {PageUrl(n) : n \in Pages}

PageOf(url) == CHOOSE n \in Pages : PageUrl(n) = url

\* the HTML the listing serves for page n
Body(n) == <<"html", n>>

Put(f, k, v) == [u \in (DOMAIN f) \cup {k} |-> IF u = k THEN v ELSE f[u]]

Count(f, k) == IF k \in DOMAIN f THEN f[k] ELSE 0

\* ------------------------------------------------------------------ main
\* the start URL the user entered: the first page of the listing
url_input == PageUrl(1)

InitCrawl ==
    /\ style \in Styles
    /\ bare_first \in BOOLEAN
    /\ style = "opaque" => ~bare_first
    /\ pc = "main_loop"
    /\ next_url_to_scrape = url_input
    /\ master_visited_urls = {}
    /\ master_scraped_data = <<>>
    /\ restart_count = 0
    /\ start_url = None
    /\ last_successful_url = None
    /\ previous_page_number = 0
    /\ previous_url = None
    /\ current_url = None
    /\ page_url = None
    /\ browser_open = FALSE
    /\ more_left = 0
    /\ grow_left = 0
    /\ endless = "no"
    /\ expand_tick = 0
    /\ exit_edge = "none"
    /\ report = [printed |-> FALSE, total |-> 0, saved |-> {}]
    /\ sessions = 0
    /\ backoffs = 0
    /\ writes = <<>>
    /\ clicked_from = None
    /\ scenario = "plain"

Init ==
    /\ InitCrawl
    /\ probe_url = None
    /\ probe_result = -1
    /\ probe_sel = <<>>
    /\ probe_button = -1

\* the loop test with an off-by-one restart bound
LoopCondition_inclusive == next_url_to_scrape # None /\ restart_count <= max_restarts

\* the test of main's while loop
LoopCondition == next_url_to_scrape # None /\ restart_count < max_restarts

\* the frame of scrape_with_playwright is gone: its locals and its page no longer exist
DropSessionFrame ==
    /\ start_url' = None
    /\ last_successful_url' = None
    /\ previous_page_number' = 0
    /\ previous_url' = None
    /\ current_url' = None
    /\ page_url' = None
    /\ more_left' = 0
    /\ grow_left' = 0
    /\ endless' = "no"
    /\ expand_tick' = 0
    /\ clicked_from' = None

\* a return path that leaves its browser running
BrowserAfterClose_leak == TRUE

\* whether the browser is open after await browser.close()
BrowserAfterClose == FALSE

\* scrape_with_playwright closes the browser and returns resume to main, which counts the session
SessionReturn(resume, edge) ==
    /\ next_url_to_scrape' = resume
    /\ restart_count' = restart_count + 1
    /\ exit_edge' = edge
    /\ browser_open' = BrowserAfterClose
    /\ pc' = "main_loop"
    /\ DropSessionFrame

\* an exception leaves scrape_with_playwright and main; the async-with block stops the browser
Propagate(edge) ==
    /\ pc' = "crashed"
    /\ exit_edge' = edge
    /\ browser_open' = FALSE
    /\ DropSessionFrame
    /\ UNCHANGED <<next_url_to_scrape, restart_count>>

\* a loop that sleeps before every session
NeedsBackoff_always == TRUE

\* main sleeps 10 seconds before a session when this holds
NeedsBackoff == restart_count > 0

\* one turn of main's loop up to the first page of the session
LaunchSession ==
    /\ pc = "main_loop"
    /\ LoopCondition
    /\ sessions' = sessions + 1
    /\ backoffs' = IF NeedsBackoff THEN backoffs + 1 ELSE backoffs
    /\ \/ \* page.goto raises TimeoutError
          /\ SessionReturn(next_url_to_scrape, "goto_timeout")
          /\ scenario' = "other"
       \/ \* page.goto raises another error
          /\ Propagate("goto_error")
          /\ scenario' = "other"
       \/ \* page.goto succeeds, possibly redirected
          \E landed \in SiteUrls :
             /\ start_url' = next_url_to_scrape
             /\ last_successful_url' = next_url_to_scrape
             /\ clicked_from' = next_url_to_scrape
             /\ page_url' = landed
             /\ scenario' = IF landed = next_url_to_scrape THEN scenario ELSE "other"
             /\ browser_open' = TRUE
             /\ previous_page_number' = get_page_number(next_url_to_scrape)
             /\ previous_url' = next_url_to_scrape
             /\ pc' = "iter_top"
             /\ UNCHANGED <<orchestrator, current_url, more_left, grow_left, endless,
                            expand_tick>>
    /\ UNCHANGED <<site, master, report, probe>>

\* a session that forgets what was scraped
AlreadyScraped_never(url) == FALSE

\* the membership test that decides whether a page is scraped
AlreadyScraped(url) == url \in master_visited_urls

\* an unscraped page is captured before its dynamic content is loaded
UnvisitedEntry_capture == "capture"

\* an unscraped page goes to the sequence check before it is captured
UnvisitedEntry_check == "seq_check"

\* what the session does first with a page that is not in visited_urls
UnvisitedEntry == "expanding"

\* top of the session loop: read page.url and branch on visited
ReadUrl ==
    /\ pc = "iter_top"
    /\ current_url' = page_url
    /\ IF AlreadyScraped(page_url)
       THEN /\ pc' = "seq_check"
            /\ UNCHANGED <<more_left, grow_left, endless, scenario>>
       ELSE /\ pc' = UnvisitedEntry
            /\ more_left' \in 0..MaxMore
            /\ grow_left' \in 0..MaxGrow
            /\ endless' \in {"no", "button", "scroll"}
            /\ scenario' = IF more_left' = 0 /\ grow_left' = 0 /\ endless' = "no"
                           THEN scenario ELSE "other"
    /\ UNCHANGED <<site, orchestrator, master, report, sessions, backoffs, probe, browser_open,
                   start_url, last_successful_url, previous_page_number,
                   previous_url, page_url, expand_tick, clicked_from>>

\* a load-more button is visible
ButtonVisible == more_left > 0 \/ endless = "button"

\* scrolling to the bottom makes new_height > initial_height
HeightGrows == grow_left > 0 \/ endless = "scroll"

\* strategy 2 of handle_dynamic_content_loading, with ml load-more clicks left
Scroll(ml) ==
    \/ \* page.evaluate or wait_for_load_state raises something else than TimeoutError
       /\ Propagate("expand_error")
       /\ scenario' = "other"
    \/ \* the height grew: next iteration
       /\ HeightGrows
       /\ grow_left' = IF grow_left > 0 THEN grow_left - 1 ELSE grow_left
       /\ more_left' = ml
       /\ expand_tick' = 1 - expand_tick
       /\ UNCHANGED <<pc, browser_open, scenario, orchestrator, start_url,
                      last_successful_url, previous_page_number, previous_url,
                      current_url, page_url, endless, clicked_from>>
    \/ \* nothing clicked, nothing grew: break, and the function returns
       /\ ~HeightGrows
       /\ more_left' = ml
       /\ pc' = "capture"
       /\ expand_tick' = 0
       /\ UNCHANGED <<grow_left, browser_open, scenario, orchestrator, start_url,
                      last_successful_url, previous_page_number, previous_url,
                      current_url, page_url, endless, clicked_from>>

\* one iteration of the while loop of handle_dynamic_content_loading
ExpandIteration ==
    /\ pc = "expanding"
    /\ \/ \* a load-more button is visible, the click and the settle wait succeed
          /\ ButtonVisible
          /\ more_left' = IF more_left > 0 THEN more_left - 1 ELSE more_left
          /\ expand_tick' = 1 - expand_tick
          /\ UNCHANGED <<pc, browser_open, grow_left, scenario, orchestrator, start_url,
                         last_successful_url, previous_page_number, previous_url,
                         current_url, page_url, endless, clicked_from>>
       \/ \* every visible button raised in click or in the wait: fall to the scroll
          /\ ButtonVisible
          /\ \E ml \in {more_left, IF more_left > 0 THEN more_left - 1 ELSE more_left} :
                Scroll(ml)
       \/ \* no button is visible
          /\ ~ButtonVisible
          /\ Scroll(0)
    /\ UNCHANGED <<site, master, report, sessions, backoffs, probe>>

\* a session that keeps only the page it scraped last
Visit_replace(visited, url) == {url}

\* a session that never records the page it scraped
Visit_forget(visited, url) == visited

\* visited_urls.add(current_url)
Visit(visited, url) == visited \cup {url}

\* a capture that stores nothing
Captured_skip(data, url, html) == data

\* what page.content() returns is stored under the URL
Captured(data, url, html) == Put(data, url, html)

\* page.content() and the three statements after it
Capture ==
    /\ pc = "capture"
    /\ \/ \* page.content() raises
          /\ Propagate("capture_error")
          /\ scenario' = "other"
          /\ UNCHANGED master
       \/ \* page.content() returns the HTML
          /\ master_scraped_data' =
                Captured(master_scraped_data, current_url, Body(PageOf(current_url)))
          /\ master_visited_urls' = Visit(master_visited_urls, current_url)
          /\ last_successful_url' = current_url
          /\ writes' = Put(writes, current_url, Count(writes, current_url) + 1)
          /\ pc' = "seq_check"
          /\ UNCHANGED <<scenario, browser_open, orchestrator, start_url, previous_page_number,
                            previous_url, current_url, page_url, more_left, grow_left,
                            endless, expand_tick, clicked_from>>
    /\ UNCHANGED <<site, report, sessions, backoffs, probe>>

\* the page-skip test
IsAnomaly(current_page_number, previous_number) ==
    current_page_number > previous_number + 1

\* a page skip that resumes at the jumped-to URL
AnomalyResume_jumped == current_url

\* the resume URL returned on a page skip
AnomalyResume == previous_url

\* the sequence check between capture and navigation
SequenceCheck ==
    /\ pc = "seq_check"
    /\ IF IsAnomaly(get_page_number(current_url), previous_page_number)
       THEN /\ SessionReturn(AnomalyResume, "anomaly")
            /\ scenario' = IF scenario = "one_jump" THEN "one_anomaly" ELSE scenario
       ELSE /\ pc' = "navigate"
            /\ UNCHANGED <<orchestrator, browser_open, session_frame, scenario>>
    /\ UNCHANGED <<site, master, report, sessions, backoffs, probe>>

\* one selector: wait_for raises (no match, hidden, error), is_enabled is false, or the button is usable
SelStatus == {"raises", "disabled", "ok"}

\* the selector loop from selector i on: break at the first visible and enabled match
RECURSIVE ResolveFrom(_, _)
ResolveFrom(sel, i) ==
    IF i > Len(sel) THEN 0
    ELSE IF sel[i] = "ok" THEN i
    ELSE ResolveFrom(sel, i + 1)

\* a selector loop without the break: the last qualifying selector wins
ResolveNext_last(sel) ==
    IF \E i \in 1..Len(sel) : sel[i] = "ok"
    THEN CHOOSE i \in 1..Len(sel) : sel[i] = "ok" /\ \A j \in (i + 1)..Len(sel) : sel[j] # "ok"
    ELSE 0

\* the selector loop: index of the selector that gave next_button, 0 for next_button = None
ResolveNext(sel) == ResolveFrom(sel, 1)

\* the resume URL returned by the except clause of the session loop
FailureResume == last_successful_url

\* history: a click from page n that lands on page m
AfterClick(sc, n, m) ==
    IF m = n + 1 THEN sc
    ELSE IF m > n + 1 /\ sc = "plain" THEN "one_jump"
    ELSE "other"

\* the try block of the session loop: resolve Next, pause, click, wait for the URL to change
Navigate ==
    /\ pc = "navigate"
    /\ \E sel \in [1..NumSelectors -> SelStatus] :
          /\ PageOf(current_url) = NumPages => \A i \in 1..NumSelectors : sel[i] # "ok"
          /\ \/ \* next_button is None: raise, caught by the except clause
                /\ ResolveNext(sel) = 0
                /\ SessionReturn(FailureResume, "no_next")
                /\ scenario' = IF PageOf(current_url) = NumPages THEN scenario ELSE "other"
             \/ \* the click or wait_for_url raises, caught by the except clause
                /\ ResolveNext(sel) # 0
                /\ SessionReturn(FailureResume, "failed")
                /\ scenario' = "other"
             \/ \* the click succeeds and the URL changes
                /\ ResolveNext(sel) # 0
                /\ \E m \in Pages \ {PageOf(current_url)} :
                      /\ page_url' = PageUrl(m)
                      /\ scenario' = AfterClick(scenario, PageOf(current_url), m)
                /\ previous_page_number' = get_page_number(current_url)
                /\ previous_url' = current_url
                /\ clicked_from' = current_url
                /\ pc' = "iter_top"
                /\ UNCHANGED <<orchestrator, browser_open, start_url, last_successful_url,
                               current_url, more_left, grow_left, endless, expand_tick>>
    /\ UNCHANGED <<site, master, report, sessions, backoffs, probe>>

\* after the loop of main: print the total and save every captured page
Finish ==
    /\ pc = "main_loop"
    /\ ~LoopCondition
    /\ report' = [printed |-> TRUE,
                  total |-> Cardinality(master_visited_urls),
                  saved |-> DOMAIN master_scraped_data]
    /\ pc' = "done"
    /\ UNCHANGED <<site, orchestrator, master, session_frame, browser_open,
                   sessions, backoffs, scenario, probe>>

InSession == pc \in {"iter_top", "expanding", "capture", "seq_check", "navigate"}

\* KeyboardInterrupt: asyncio.run cancels main, the except clause of __main__ prints and exits
Interrupt ==
    /\ InSession \/ pc = "main_loop"
    /\ pc' = "interrupted"
    /\ browser_open' = FALSE
    /\ DropSessionFrame
    /\ UNCHANGED <<site, orchestrator, master, report, sessions, backoffs, scenario, probe>>

\* --------------------------------------------- get_page_number on its own
Fragments ==
    { <<"h">>,
      <<"?", "p", "a", "g", "e", "=", "5">>,
      <<"&", "p", "=", "4">>,
      <<"/", "p", "a", "g", "e", "/", "3">>,
      <<"/", "7">>,
      <<"/">>,
      <<"0">>,
      <<"?", "x", "p", "=", "6">>,
      <<"p", "a", "g", "e", "=", "2">> }

RECURSIVE Concat(_)
Concat(fs) == IF fs = <<>> THEN <<>> ELSE Head(fs) \o Concat(Tail(fs))

ProbeUrls ==
    { Concat(fs) : fs \in UNION { [1..k -> Fragments] : k \in 1..MaxFragments } }

OrdInit ==
    /\ InitCrawl
    /\ style = "query"
    /\ ~bare_first
    /\ probe_url \in ProbeUrls
    /\ probe_result = -1
    /\ probe_sel = <<>>
    /\ probe_button = -1

\* one call of get_page_number
Probe ==
    /\ probe_url # None
    /\ probe_result = -1
    /\ probe_result' = get_page_number(probe_url)
    /\ UNCHANGED <<crawl_vars, probe_url, probe_sel, probe_button>>

OrdNext == Probe

\* selector lists of the probe: shorter than the source's twelve selectors
MaxSelectors == 4

SelectorLists == UNION { [1..k -> SelStatus] : k \in 1..MaxSelectors }

ResolveInit ==
    /\ InitCrawl
    /\ style = "query"
    /\ ~bare_first
    /\ probe_url = None
    /\ probe_result = -1
    /\ probe_sel \in SelectorLists
    /\ probe_button = -1

\* one run of the selector loop
ProbeResolve ==
    /\ probe_sel # <<>>
    /\ probe_button = -1
    /\ probe_button' = ResolveNext(probe_sel)
    /\ UNCHANGED <<crawl_vars, probe_url, probe_result, probe_sel>>

ResolveNext_step == ProbeResolve

SpecResolve == ResolveInit /\ [][ResolveNext_step]_vars

SpecOrdinal == OrdInit /\ [][OrdNext]_vars

Next ==
    \/ LaunchSession
    \/ ReadUrl
    \/ ExpandIteration
    \/ Capture
    \/ SequenceCheck
    \/ Navigate
    \/ Finish
    \/ Interrupt

Spec == Init /\ [][Next]_vars

\* the steps the event loop runs; Ctrl+C is the user's and is never forced
ProgramStep ==
    \/ LaunchSession
    \/ ReadUrl
    \/ ExpandIteration
    \/ Capture
    \/ SequenceCheck
    \/ Navigate
    \/ Finish

\* asyncio.run drives main to completion: a step that can be taken is taken
LiveSpec == Spec /\ WF_vars(ProgramStep)

\* ------------------------------------------------------------ properties

\* C1: when no selector yields a visible and enabled Next element, the session
\* returns resumeUrl = None.
C1_NoNextReturnsNone ==
    exit_edge = "no_next" => next_url_to_scrape = None

\* C2: a fault-free crawl of a 3-page linear listing without dynamic content stops
\* with the 3 URLs visited, the 3 bodies captured and the last resumeUrl = None.
C2_ThreePageCrawl ==
    (pc = "done" /\ scenario = "plain" /\ NumPages = 3) =>
        /\ master_visited_urls = SiteUrls
        /\ DOMAIN master_scraped_data = SiteUrls
        /\ \A n \in Pages : master_scraped_data[PageUrl(n)] = Body(n)
        /\ next_url_to_scrape = None

\* C3: at the sequence check of every iteration, visited URL or not: an ordinal above
\* previousOrdinal + 1 ends the session with resumeUrl = the URL of the last
\* successful click (the start URL if there was none), which is not the current URL;
\* otherwise no anomaly is declared and the session goes on to navigation.
C3_AnomalyResume ==
    [][(pc = "seq_check" /\ pc' # "interrupted") =>
          IF get_page_number(current_url) > previous_page_number + 1
          THEN /\ pc' = "main_loop"
               /\ exit_edge' = "anomaly"
               /\ ~browser_open'
               /\ next_url_to_scrape' = clicked_from
               /\ next_url_to_scrape' # current_url
          ELSE /\ pc' = "navigate"
               /\ UNCHANGED <<next_url_to_scrape, restart_count, exit_edge>>]_vars

C3_Witness ==
    /\ exit_edge = "anomaly"
    /\ pc = "main_loop"
    /\ restart_count >= 2
    /\ next_url_to_scrape \in master_visited_urls

\* C4: at most max_restarts sessions are ever launched; when the loop stops with a
\* resume URL left, exactly max_restarts sessions ran and the visited set and the
\* captured map are reported and saved as they are.
C4_RestartBound ==
    /\ sessions <= max_restarts
    /\ restart_count <= max_restarts
    /\ (pc = "done" /\ next_url_to_scrape # None) =>
          /\ sessions = max_restarts
          /\ report.total = Cardinality(master_visited_urls)
          /\ report.saved = DOMAIN master_scraped_data

C4_Witness ==
    /\ pc = "done"
    /\ next_url_to_scrape # None
    /\ sessions = max_restarts
    /\ master_visited_urls # {}

\* C5: no failure during expansion or capture leaves scrape_with_playwright: the
\* session ends with a resume URL and main goes on.
C5_FailuresRecovered ==
    exit_edge \in {"expand_error", "capture_error"} => pc # "crashed"

\* C6: no step removes a URL from the visited set.
C6_VisitedMonotonic ==
    [][master_visited_urls \subseteq master_visited_urls']_vars

C6_Witness ==
    /\ restart_count >= 2
    /\ exit_edge \in {"goto_timeout", "anomaly", "failed", "no_next"}
    /\ Cardinality(master_visited_urls) >= 2

\* C7: scraped_data[url] is written at most once per URL; an iteration that finds its
\* URL in visited goes straight to the sequence check and changes neither visited nor
\* scraped_data; no step changes or removes an existing entry.
C7_CaptureOnce ==
    [][/\ \A u \in DOMAIN writes' : writes'[u] <= 1
       /\ \A u \in DOMAIN master_scraped_data :
             /\ u \in DOMAIN master_scraped_data'
             /\ master_scraped_data'[u] = master_scraped_data[u]
       /\ (pc = "iter_top" /\ page_url \in master_visited_urls /\ pc' # "interrupted") =>
             /\ pc' = "seq_check"
             /\ UNCHANGED <<master_visited_urls, master_scraped_data, writes>>]_vars

C7_Witness ==
    /\ pc = "seq_check"
    /\ restart_count >= 1
    /\ current_url \in master_visited_urls
    /\ current_url # last_successful_url
    /\ current_url # start_url

\* positions where a query parameter page=<digit> or p=<digit> starts
QueryHits(url) ==
    { i \in 1..Len(url) :
        /\ url[i] \in {"?", "&"}
        /\ \E key \in {<<"p", "a", "g", "e", "=">>, <<"p", "=">>} :
              /\ i + Len(key) + 1 <= Len(url)
              /\ SubSeq(url, i + 1, i + Len(key)) = key
              /\ IsDigit(url[i + Len(key) + 1]) }

\* positions where a path segment /page/<digit> starts
PathHits(url) ==
    { i \in 1..Len(url) :
        /\ i + 6 <= Len(url)
        /\ SubSeq(url, i, i + 5) = <<"/", "p", "a", "g", "e", "/">>
        /\ IsDigit(url[i + 6]) }

\* the URL without one trailing slash
Trimmed(url) ==
    IF url # <<>> /\ url[Len(url)] = "/" THEN SubSeq(url, 1, Len(url) - 1) ELSE url

\* positions of a slash followed only by digits up to the end of the trimmed URL
TrailHits(url) ==
    { i \in 1..(Len(Trimmed(url)) - 1) :
        /\ url[i] = "/"
        /\ \A k \in (i + 1)..Len(Trimmed(url)) : IsDigit(url[k]) }

Min(S) == CHOOSE x \in S : \A y \in S : x <= y

\* the number written by the digits that start at the first digit after position i
RECURSIVE NumberFrom(_, _, _)
NumberFrom(url, k, acc) ==
    IF k <= Len(url) /\ IsDigit(url[k])
    THEN NumberFrom(url, k + 1, 10 * acc + DigitValue(url[k]))
    ELSE acc

FirstDigitAfter(url, i) == Min({k \in i..Len(url) : IsDigit(url[k])})

NumberAfter(url, i) == NumberFrom(url, FirstDigitAfter(url, i), 0)

\* C8: get_page_number returns a non-negative integer for every URL: the number of
\* the first page= or p= query parameter if there is one, else the number of the
\* first /page/<n> segment if there is one, else the trailing numeric segment if
\* there is one, else 1; and the call changes nothing else.
C8_OrdinalPriority ==
    probe_result # -1 =>
        /\ probe_result \in Nat
        /\ probe_result =
              IF QueryHits(probe_url) # {}
              THEN NumberAfter(probe_url, Min(QueryHits(probe_url)))
              ELSE IF PathHits(probe_url) # {}
              THEN NumberAfter(probe_url, Min(PathHits(probe_url)) + 5)
              ELSE IF TrailHits(probe_url) # {}
              THEN NumberAfter(probe_url, Min(TrailHits(probe_url)))
              ELSE 1
        /\ get_page_number(<<"h", "?", "p", "a", "g", "e", "=", "5">>) = 5
        /\ get_page_number(<<"h", "/", "p", "a", "g", "e", "/", "3", "/">>) = 3
        /\ get_page_number(<<"h", "/", "c", "/", "7">>) = 7
        /\ get_page_number(<<"h", "/", "c", "/">>) = 1
        /\ pc = "main_loop" /\ restart_count = 0 /\ master_visited_urls = {}

C8_Witness ==
    /\ probe_result = 5
    /\ QueryHits(probe_url) # {}
    /\ PathHits(probe_url) # {}
    /\ TrailHits(probe_url) # {}
    /\ Min(PathHits(probe_url)) < Min(QueryHits(probe_url))

\* C9: after one session ended by a page skip and no other fault, the crawl finishes
\* with every page visited and captured and the last resumeUrl = None.
C9_ResumeAfterAnomaly ==
    (pc = "done" /\ scenario = "one_anomaly") =>
        /\ master_visited_urls = SiteUrls
        /\ DOMAIN master_scraped_data = SiteUrls
        /\ next_url_to_scrape = None

\* C10: an interrupt launches no further session, releases the browser, and the
\* visited total is reported and the captured pages are saved.
C10_InterruptKeepsState ==
    (pc = "interrupted" /\ DOMAIN master_scraped_data # {}) =>
        /\ ~browser_open
        /\ report.printed
        /\ report.saved = DOMAIN master_scraped_data

\* C11: during a session last_successful_url is in the visited set or is the start
\* URL given to main, and so is every resume URL a session has returned.
C11_LastGoodKnown ==
    /\ InSession => last_successful_url \in master_visited_urls \cup {url_input}
    /\ (pc \in {"main_loop", "done"} /\ next_url_to_scrape # None) =>
          next_url_to_scrape \in master_visited_urls \cup {url_input}

C11_Witness ==
    /\ pc = "main_loop"
    /\ exit_edge = "failed"
    /\ next_url_to_scrape # url_input
    /\ next_url_to_scrape \in master_visited_urls

\* C12: handle_dynamic_content_loading terminates on every page: whenever the
\* session is expanding a page, it eventually leaves the expansion.
C12_ExpansionTerminates == (pc = "expanding") ~> (pc # "expanding")

\* C13: the selector loop yields the earliest selector of the list whose first match
\* is visible and enabled, skipping every selector that raises or is disabled, and
\* yields none exactly when no selector of the list qualifies.
C13_FirstQualifying ==
    probe_button # -1 =>
        /\ probe_button \in 0..Len(probe_sel)
        /\ probe_button = 0 <=> \A i \in 1..Len(probe_sel) : probe_sel[i] # "ok"
        /\ probe_button # 0 =>
              /\ probe_sel[probe_button] = "ok"
              /\ \A j \in 1..(probe_button - 1) : probe_sel[j] # "ok"

C13_Witness ==
    /\ Len(probe_sel) = 4
    /\ probe_sel[1] = "raises"
    /\ probe_sel[2] = "disabled"
    /\ probe_sel[3] = "ok"
    /\ probe_sel[4] = "ok"
    /\ probe_button = 3

\* C14: a URL that is not yet visited is expanded first, and only the step after
\* the expansion has returned captures it; that one step stores the content under
\* current_url, adds current_url to visited and makes it last_successful_url, and
\* nothing else ever changes visited or the captured pages, so pages are captured in
\* the order the session reads them.
C14_ExpandThenCapture ==
    [][ /\ (pc' = "expanding" /\ pc # "expanding") =>
              /\ pc = "iter_top"
              /\ current_url' = page_url
              /\ current_url' \notin master_visited_urls
              /\ current_url' \notin DOMAIN master_scraped_data
        /\ (pc' = "capture" /\ pc # "capture") =>
              /\ pc = "expanding"
              /\ current_url' = current_url
        /\ (\/ master_visited_urls' # master_visited_urls
            \/ master_scraped_data' # master_scraped_data
            \/ InSession /\ InSession' /\ last_successful_url' # last_successful_url) =>
              /\ pc = "capture"
              /\ current_url = page_url
              /\ master_visited_urls' = master_visited_urls \cup {current_url}
              /\ DOMAIN master_scraped_data' = DOMAIN master_scraped_data \cup {current_url}
              /\ \A u \in DOMAIN master_scraped_data :
                    master_scraped_data'[u] = master_scraped_data[u]
              /\ last_successful_url' = current_url
      ]_vars

C14_Witness ==
    /\ pc = "seq_check"
    /\ current_url = PageUrl(2)
    /\ last_successful_url = current_url
    /\ master_visited_urls = {PageUrl(1), PageUrl(2)}
    /\ DOMAIN master_scraped_data = master_visited_urls
    /\ Count(writes, current_url) = 1

\* C15: handle_dynamic_content_loading returns only at a fixed point: when it has
\* returned, no load-more button is visible and a scroll to the bottom adds nothing.
C15_ReturnsAtFixedPoint ==
    pc = "capture" => ~ButtonVisible /\ ~HeightGrows

\* C16: on a site with finitely many pages, none of which keeps offering dynamic
\* content for ever, the whole crawl eventually stops.
C16_CrawlStops ==
    <>(pc \in {"done", "crashed", "interrupted"} \/ endless # "no")

\* C17: a browser is open only inside a running session: on every path on which
\* scrape_with_playwright ends, the browser is closed before main launches the next
\* session, so at most one browser is open at any time.
C17_OneBrowser ==
    /\ browser_open => InSession
    /\ (pc = "main_loop" /\ LoopCondition) => ~browser_open

C17_Witness ==
    /\ pc = "main_loop"
    /\ LoopCondition
    /\ sessions = 2
    /\ exit_edge = "anomaly"
    /\ ~browser_open

\* C18: the first session starts with no backoff and every later session is preceded
\* by exactly one backoff sleep, taken in the loop turn that launches it; no sleep is
\* taken once the loop has stopped.
C18_BackoffPerRestart ==
    backoffs = IF sessions = 0 THEN 0 ELSE sessions - 1

C18_Witness ==
    /\ pc = "done"
    /\ sessions = 3
    /\ backoffs = 2

\* C19: whenever scrape_with_playwright has returned, on any exit edge, the keys of
\* the captured pages are exactly the visited URLs, and every one of them was stored
\* exactly once.
C19_CapturedIsVisited ==
    (pc \in {"main_loop", "done"} /\ sessions > 0) =>
        /\ DOMAIN master_scraped_data = master_visited_urls
        /\ \A u \in master_visited_urls : Count(writes, u) = 1

C19_Witness ==
    /\ pc = "main_loop"
    /\ exit_edge = "failed"
    /\ master_visited_urls = {PageUrl(1), PageUrl(2)}
    /\ DOMAIN master_scraped_data = master_visited_urls

\* C20: the step that ends a session with a sequence anomaly finds the jumped-to URL
\* already captured and visited and adds nothing else; a session that reads a visited
\* URL does not expand or capture it again; and a URL enters visited only in a step
\* of a session that is on that URL, so the pages a jump skipped stay absent until a
\* session reaches them.
C20_JumpTargetCaptured ==
    [][ /\ (pc = "seq_check" /\ pc' = "main_loop") =>
              /\ exit_edge' = "anomaly"
              /\ current_url \in master_visited_urls
              /\ current_url \in DOMAIN master_scraped_data
              /\ master_visited_urls' = master_visited_urls
              /\ master_scraped_data' = master_scraped_data
              /\ next_url_to_scrape' = previous_url
        /\ (pc = "iter_top" /\ page_url \in master_visited_urls) =>
              /\ pc' \notin {"expanding", "capture"}
              /\ writes' = writes
        /\ \A u \in SiteUrls :
              (u \notin master_visited_urls /\ u \in master_visited_urls') =>
                  page_url = u /\ current_url = u
      ]_vars

C20_Witness ==
    /\ pc = "main_loop"
    /\ exit_edge = "anomaly"
    /\ style = "query"
    /\ next_url_to_scrape = PageUrl(1)
    /\ PageUrl(3) \in master_visited_urls
    /\ PageUrl(3) \in DOMAIN master_scraped_data
    /\ PageUrl(2) \notin master_visited_urls

====
